---- MODULE Spec2Model ----
(***************************************************************************)
(* abs-cli: a command-line client of an Audiobookshelf server.             *)
(*                                                                         *)
(* The model follows one invocation of the program at a time: the click    *)
(* group builds a lazy context, the selected command runs step by step     *)
(* (one action per HTTP request or loop iteration), and the process ends   *)
(* with exit status 0 ("done"), a click usage error ("usage_error") or an  *)
(* exception ("error").  The server is part of the state: its libraries,   *)
(* their items and the user's media progress.  After a successful applied  *)
(* sync the same command line may be invoked again against the server as   *)
(* the previous run left it.                                               *)
(*                                                                         *)
(* Spec runs every command on a small server with well-formed sources.     *)
(* SpecRead runs progress sync up to the reading of its sources, whose     *)
(* contents vary (any JSON document, any delimited file, any join).        *)
(* SpecIndex runs progress sync --apply on libraries of several pages.     *)
(* SpecMatch runs items match --all on a library of several items.         *)
(***************************************************************************)
EXTENDS Integers, Sequences, FiniteSets, TLC

\* ------------------------------------------------------------------ bounds

\* Rows a source file (Libation database, Audible export) holds at most.
MaxRows == 1
\* Items the server's catalog holds at most, over all libraries.
MaxItems == 1
\* Libraries the server holds at most.
MaxLibs == 1
\* Entries (pairs of the join, JSON entries, rows below the header) a source
\* holds at most when its contents vary.
MaxEntries == 2
\* Items the library holds at most that items match --all goes through.
MaxMatchItems == 2
\* Full pages a library holds at most, and libraries, when the catalog is
\* paged.
MaxPages == 2
MaxPagedLibs == 2

\* ----------------------------------------------------------------- values

\* Catalog identifiers (ASINs) that occur in sources and on the server.
Asins == {"A1", "A2"}
\* Python's None: an absent option, a missing dict key, a failed lookup.
None == "None"
\* What metadata.get("asin") may give for a server item.
ItemAsins == Asins \cup {None}
\* The progress the server holds for an item: no mediaProgress entry, an
\* entry with isFinished false, an entry with isFinished true.
ProgressStates == {"none", "unfinished", "finished"}
\* The configuration file: absent; present with api_token; present without.
ConfigFiles == {"missing", "token", "notoken"}

SeqsUpTo(S, n) == UNION {[1..k -> S] : k \in 0..n}

RECURSIVE SumLen(_)
SumLen(ss) == IF ss = <<>> THEN 0 ELSE Len(Head(ss)) + SumLen(Tail(ss))

RECURSIVE Concat(_)
Concat(ss) == IF ss = <<>> THEN <<>> ELSE Head(ss) \o Concat(Tail(ss))

RECURSIVE SortedSeq(_)
SortedSeq(S) ==
    IF S = {} THEN <<>>
    ELSE LET m == CHOOSE x \in S : \A y \in S : x <= y
         IN <<m>> \o SortedSeq(S \ {m})

VARIABLES
    \* the invocation's inputs
    argv,             \* the parsed command line
    cfgFile,          \* the configuration file's state
    libationDb,       \* rows the Libation query returns (finished books)
    exportFile,       \* finished rows of the audible-cli export
    \* the server
    srvLibraries,     \* sequence of libraries, each with its items
    mediaProgress,    \* item id -> progress state of the user
    \* the process
    pc,               \* position in the running command
    io,               \* local I/O done so far by this invocation
    requests,         \* HTTP requests sent so far by this invocation
    printed,          \* console output so far (tags)
    finished_books, progress_by_item, libraries, lib_idx, page, asin_index,
    book_idx, table, synced, skipped, not_found,
    results, library_ids, idx, success, errors,
    prev              \* what the previous invocation reported

inputs == <<argv, cfgFile, libationDb, exportFile>>
server == <<srvLibraries, mediaProgress>>
indexLocals == <<progress_by_item, libraries, lib_idx, page, asin_index>>
tallies == <<synced, skipped, not_found>>
syncLocals == <<finished_books, indexLocals, book_idx, table, tallies>>
itemLocals == <<results, library_ids, idx, success, errors>>
locals == <<syncLocals, itemLocals>>
vars == <<inputs, server, pc, io, requests, printed, locals, prev>>

\* ------------------------------------------------------------- the server

\* The item at position k of library l: its id is unique in the catalog.
ItemAt(l, k, asin) ==
    [id |-> 1000 * l + k, asin |-> asin, title |-> <<"title", 1000 * l + k>>]

\* The catalog whose library l holds items with the catalog ids shape[l].
Catalog(shape) ==
    [l \in 1..Len(shape) |->
        [id |-> l,
         items |-> [k \in 1..Len(shape[l]) |-> ItemAt(l, k, shape[l][k])]]]

AllItems(libs) == Concat([l \in 1..Len(libs) |-> libs[l].items])
ItemIds(libs) == {AllItems(libs)[k].id : k \in 1..Len(AllItems(libs))}

\* GET /api/me: the mediaProgress list, one entry per item with progress.
MeResponse ==
    LET ids == SortedSeq({i \in DOMAIN mediaProgress : mediaProgress[i] # "none"})
    IN [k \in 1..Len(ids) |->
           [libraryItemId |-> ids[k], isFinished |-> mediaProgress[ids[k]] = "finished"]]

\* GET /api/libraries: the libraries in the server's order.
LibrariesResponse == [l \in 1..Len(srvLibraries) |-> [id |-> srvLibraries[l].id]]

Min(a, b) == IF a <= b THEN a ELSE b

\* GET /api/libraries/{lib_id}/items?limit=..&page=..: one page and the total
\* (limit=0 asks for all items at once).
ItemsPage(lib_id, limit, p) ==
    LET its == (CHOOSE L \in {srvLibraries[l] : l \in 1..Len(srvLibraries)} :
                    L.id = lib_id).items
    IN [results |-> IF limit = 0 THEN its
                    ELSE SubSeq(its, p * limit + 1, Min((p + 1) * limit, Len(its))),
        total |-> Len(its)]

LibraryIds == {srvLibraries[l].id : l \in 1..Len(srvLibraries)}

\* The statuses a request about a thing may get: any for one the server
\* holds, a failure (404) for one it does not.
Statuses(exists) == IF exists THEN BOOLEAN ELSE {FALSE}

RECURSIVE Without(_, _)
\* The items left when the one with this id is removed.
Without(its, item_id) ==
    IF its = <<>> THEN <<>>
    ELSE (IF Head(its).id = item_id THEN <<>> ELSE <<Head(its)>>)
             \o Without(Tail(its), item_id)

\* DELETE /api/items/{item_id}, applied: the item and its progress are gone.
DeleteItem(libs, item_id) ==
    [l \in 1..Len(libs) |-> [libs[l] EXCEPT !.items = Without(@, item_id)]]
DeleteProgress(mp, item_id) == [i \in (DOMAIN mp) \ {item_id} |-> mp[i]]

\* PATCH /api/me/progress/{item_id} {isFinished: true, progress: 1}, applied.
PatchProgress(mp, item_id) == [mp EXCEPT ![item_id] = "finished"]

\* ------------------------------------------------------------------- Init

FinishedBook(asin, title, source) ==
    [asin |-> asin, title |-> title, source |-> source]

\* The title a source gives the book with this catalog id.
TitleOf(asin) == <<"book", asin>>

\* A Libation database in which every book is finished: one pair per book.
LibationOf(asins) ==
    [k \in 1..Len(asins) |->
        [AudibleProductId |-> asins[k], Title |-> TitleOf(asins[k]),
         BookId |-> asins[k], IsFinished |-> 1]]

\* An audible-cli export (.json) in which every entry is finished.
JsonExportOf(asins) ==
    [suffix |-> ".json",
     doc |-> [top |-> "list",
              entries |-> [k \in 1..Len(asins) |->
                              [asin |-> asins[k], title |-> TitleOf(asins[k]),
                               is_finished |-> "true"]]]]

SyncArgs ==
    {[cmd |-> "sync", libation_db |-> l, audible_export |-> a, apply |-> ap] :
        l \in {None, "libation.db"}, a \in {None, "export.json"}, ap \in BOOLEAN}

\* Item and library ids a command line may name: one the server may hold, one
\* it never holds.
ArgItemIds == {1001, 9999}
ArgLibraryIds == {1, 9}
\* An optional argument: <<>> when it is not given (None), <<v>> when it is.
Optional(S) == {<<>>} \cup {<<v>> : v \in S}

DeleteArgs ==
    {[cmd |-> "delete", item_id |-> i, dry_run |-> d, hard_delete |-> h] :
        i \in ArgItemIds, d \in BOOLEAN, h \in BOOLEAN}

MatchArgs ==
    {[cmd |-> "match", item_id |-> i, match_all |-> m, library_id |-> l,
      provider |-> "audible"] :
        i \in Optional(ArgItemIds), m \in BOOLEAN, l \in Optional(ArgLibraryIds)}

ScanArgs ==
    {[cmd |-> "scan", library_id |-> l, force |-> f] :
        l \in Optional(ArgLibraryIds), f \in BOOLEAN}

InitServer ==
    /\ \E shape \in SeqsUpTo(SeqsUpTo(ItemAsins, MaxItems), MaxLibs) :
          /\ SumLen(shape) <= MaxItems
          /\ srvLibraries = Catalog(shape)
    /\ mediaProgress \in [ItemIds(srvLibraries) -> ProgressStates]

InitProcess ==
    /\ pc = "start"
    /\ io = {}
    /\ requests = <<>>
    /\ printed = <<>>
    /\ finished_books = <<>>
    /\ progress_by_item = <<>>
    /\ libraries = <<>>
    /\ lib_idx = 0
    /\ page = 0
    /\ asin_index = <<>>
    /\ book_idx = 0
    /\ table = <<>>
    /\ synced = 0
    /\ skipped = 0
    /\ not_found = 0
    /\ results = <<>>
    /\ library_ids = <<>>
    /\ idx = 0
    /\ success = 0
    /\ errors = 0

\* progress sync: the sources' finished books and the server vary (the
\* sources are well-formed here; InitRead varies their contents); the run
\* reads the configuration only through _get_client, so the token-less file
\* is drawn for the items and library commands.
InitSync ==
    /\ argv \in SyncArgs
    /\ cfgFile \in {"missing", "token"}
    /\ libationDb \in (IF argv.libation_db = None THEN {<<>>}
                       ELSE {LibationOf(a) : a \in SeqsUpTo(Asins, MaxRows)})
    /\ exportFile \in (IF argv.audible_export = None THEN {<<>>}
                       ELSE {JsonExportOf(a) : a \in SeqsUpTo(Asins, MaxRows)})
    /\ InitServer

\* items delete, items match, library scan: no source file is read.
InitOther ==
    /\ argv \in DeleteArgs \cup MatchArgs \cup ScanArgs
    /\ cfgFile \in ConfigFiles
    /\ libationDb = <<>>
    /\ exportFile = <<>>
    /\ InitServer

Init ==
    /\ (InitSync \/ InitOther)
    /\ InitProcess
    /\ prev = [ran |-> FALSE, table |-> <<>>]

\* ------------------------------------------------------- shared helpers

\* dict.get(key, default) on a dict kept as a function.
DictGet(d, k, default) == IF k \in DOMAIN d THEN d[k] ELSE default

\* A variant of DictPut that keeps the value a key already has.
DictPutIfAbsent(d, k, v) == d @@ (k :> v)

\* dict[key] = value: the new value replaces the old one.
DictPut(d, k, v) == (k :> v) @@ d

\* A variant of Truthy that takes the empty string too.
NotNone(v) == v # None

\* Python truthiness of a str | None value.
Truthy(v) == v # None /\ v # ""

\* One entry of the request log: the method, the path, whether the server
\* answered with a success status, and the sync loop's position when sent.
Request(method, path, ok) ==
    [method |-> method, path |-> path, ok |-> ok, at |-> book_idx]

MutatingMethods == {"POST", "PATCH", "DELETE"}

\* resp.raise_for_status(): raises on a non-success status.
Raises(ok) == ~ok

\* _LazyContext._get_client: load_config reads the file (and asks 1Password
\* when it holds no api_token), then the client is constructed.
ClientIo ==
    {"read_config"}
        \cup (IF cfgFile = "notoken" THEN {"op_read"} ELSE {})
        \cup (IF cfgFile # "missing" THEN {"client"} ELSE {})
ClientFails == cfgFile = "missing"

\* ------------------------------------------------------- source readers

\* _read_libation_finished.  libationDb holds the pairs (Books row,
\* UserDefinedItem row) the join goes through, in the order the engine yields
\* them; the query keeps a pair when its keys are equal (NULL equals nothing)
\* and the item is finished.
Null == "NULL"
LibationSelected(pair) ==
    /\ pair.AudibleProductId # Null
    /\ pair.BookId # Null
    /\ pair.AudibleProductId = pair.BookId
    /\ pair.IsFinished = 1

RECURSIVE ReadLibationFinished(_)
\* One FinishedBook per row of the query.
ReadLibationFinished(pairs) ==
    IF pairs = <<>> THEN <<>>
    ELSE (IF LibationSelected(Head(pairs))
          THEN <<FinishedBook(Head(pairs).AudibleProductId, Head(pairs).Title,
                              "Libation")>>
          ELSE <<>>)
         \o ReadLibationFinished(Tail(pairs))

\* A variant of JsonIsFinished that takes every truthy value.
JsonIsFinishedTruthy(item) ==
    DictGet(item, "is_finished", "null") \in {"true", "1", "str:true"}

\* item.get("is_finished") is True: the JSON literal true, and nothing else
\* (1, "true" and null are other values; a missing key gives None).
JsonIsFinished(item) == DictGet(item, "is_finished", "null") = "true"

\* item["asin"] of an entry without that key raises KeyError.
JsonEntryRaises(item) == JsonIsFinished(item) /\ "asin" \notin DOMAIN item

RECURSIVE ReadJsonEntries(_)
\* The list comprehension over the entries; it is cut at an entry that raises.
ReadJsonEntries(data) ==
    IF data = <<>> \/ JsonEntryRaises(Head(data)) THEN <<>>
    ELSE (IF JsonIsFinished(Head(data))
          THEN <<FinishedBook(Head(data).asin,
                              DictGet(Head(data), "title", <<>>), "Audible")>>
          ELSE <<>>)
         \o ReadJsonEntries(Tail(data))

\* json.loads of a text that is no JSON raises; iterating an object gives its
\* keys, strings that have no .get; an object without keys gives nothing.
JsonRaises(doc) ==
    \/ doc.top \in {"invalid", "object"}
    \/ doc.top = "list" /\ \E k \in 1..Len(doc.entries) : JsonEntryRaises(doc.entries[k])

\* str.lower() and str.strip() on a string kept as a sequence of characters.
LowerChar(c) ==
    CASE c = "T" -> "t" [] c = "R" -> "r" [] c = "U" -> "u" [] c = "E" -> "e"
      [] c = "Y" -> "y" [] c = "S" -> "s" [] c = "N" -> "n" [] c = "O" -> "o"
      [] OTHER -> c
Lower(str) == [k \in 1..Len(str) |-> LowerChar(str[k])]
Whitespace == {" ", "\t"}
RECURSIVE LStrip(_)
LStrip(str) ==
    IF str # <<>> /\ Head(str) \in Whitespace THEN LStrip(Tail(str)) ELSE str
RECURSIVE RStrip(_)
RStrip(str) ==
    IF str # <<>> /\ str[Len(str)] \in Whitespace
    THEN RStrip(SubSeq(str, 1, Len(str) - 1)) ELSE str
Strip(str) == RStrip(LStrip(str))

\* ("true", "1", "yes")
FinishedTokens == {<<"t", "r", "u", "e">>, <<"1">>, <<"y", "e", "s">>}

\* csv.reader: a line is split at the reader's delimiter; a file written with
\* the other delimiter gives one cell per line.
SplitLine(line, written, delimiter) ==
    IF written = delimiter \/ Len(line) <= 1 THEN line ELSE <<"unsplit">>

\* csv.DictReader: the first line names the columns; a row maps each name to
\* its cell, or to None (<<>>) when the row is too short.
DictRow(fieldnames, cells) ==
    [n \in {fieldnames[k] : k \in 1..Len(fieldnames)} |->
        LET pos == CHOOSE k \in 1..Len(fieldnames) : fieldnames[k] = n
        IN IF pos <= Len(cells) THEN <<cells[pos]>> ELSE <<>>]

\* row.get(key, default) on such a row: None for a cell the row lacks.
RowHas(row, key) == key \in DOMAIN row
RowIsNone(row, key) == RowHas(row, key) /\ row[key] = <<>>

\* A variant of RowRaises that also rejects a row without the column.
RowRaisesWithoutColumn(row) ==
    ~RowHas(row, "is_finished") \/ RowIsNone(row, "is_finished")

\* row.get("is_finished", "").strip().lower(): None has no .strip
RowRaises(row) == RowIsNone(row, "is_finished")
RowToken(row) ==
    IF RowHas(row, "is_finished") THEN Lower(Strip(row["is_finished"][1])) ELSE <<>>
RowIsFinished(row) == RowToken(row) \in FinishedTokens

\* asin=row.get("asin", ""): the cell, None for a short row, "" without column
RowAsin(row) ==
    IF ~RowHas(row, "asin") THEN ""
    ELSE IF row["asin"] = <<>> THEN None ELSE row["asin"][1]
RowTitle(row) ==
    IF ~RowHas(row, "title") \/ row["title"] = <<>> THEN <<>> ELSE row["title"][1]

RECURSIVE ReadRows(_, _)
\* The for loop over the rows; it is cut at a row that raises.
ReadRows(fieldnames, lines) ==
    IF lines = <<>> THEN <<>>
    ELSE LET row == DictRow(fieldnames, Head(lines))
         IN IF RowRaises(row) THEN <<>>
            ELSE (IF RowIsFinished(row)
                  THEN <<FinishedBook(RowAsin(row), RowTitle(row), "Audible")>>
                  ELSE <<>>)
                 \o ReadRows(fieldnames, Tail(lines))

\* delimiter = "\t" if suffix == ".tsv" else ","
Delimiter(suffix) == IF suffix = ".tsv" THEN "\t" ELSE ","

\* The lines of a delimited file as the reader splits them (none: no header).
SplitLines(file) ==
    [k \in 1..Len(file.lines) |->
        SplitLine(file.lines[k], file.written, Delimiter(file.suffix))]

DelimitedRaises(file) ==
    LET lines == SplitLines(file)
    IN /\ lines # <<>>
       /\ \E k \in 2..Len(lines) : RowRaises(DictRow(lines[1], lines[k]))

\* _read_audible_export_finished raises: a parse error or a lookup error.
ExportRaises(file) ==
    IF file.suffix = ".json" THEN JsonRaises(file.doc) ELSE DelimitedRaises(file)

\* _read_audible_export_finished: the finished entries, in file order.
ReadAudibleExportFinished(file) ==
    IF file.suffix = ".json"
    THEN (IF file.doc.top = "list" THEN ReadJsonEntries(file.doc.entries) ELSE <<>>)
    ELSE LET lines == SplitLines(file)
         IN IF lines = <<>> THEN <<>> ELSE ReadRows(Head(lines), Tail(lines))

\* ------------------------------------------------------ _build_asin_index

RECURSIVE ProgressByItem(_, _)
\* progress_by_item[p.get("libraryItemId", "")] = p, for p in order.
ProgressByItem(d, entries) ==
    IF entries = <<>> THEN d
    ELSE ProgressByItem(DictPut(d, Head(entries).libraryItemId, Head(entries)),
                        Tail(entries))

\* progress_data.get("isFinished", False)
IsFinishedOf(progress_data) ==
    IF "isFinished" \in DOMAIN progress_data THEN progress_data.isFinished ELSE FALSE

\* A variant of IndexEntry that reads the finished flag from the listed item
\* itself, which carries no progress.
IndexEntryFromItem(item, pbi) ==
    [item_id |-> item.id,
     title |-> item.title,
     is_finished |-> IsFinishedOf(<<>>)]

\* The index entry of a server item.
IndexEntry(item, pbi) ==
    [item_id |-> item.id,
     title |-> item.title,
     is_finished |-> IsFinishedOf(DictGet(pbi, item.id, <<>>))]

RECURSIVE PutItems(_, _, _)
\* index[asin] = {...} for each of these items, in order.
PutItems(index, items, pbi) ==
    IF items = <<>> THEN index
    ELSE PutItems(DictPut(index, Head(items).asin, IndexEntry(Head(items), pbi)),
                  Tail(items), pbi)

\* The for loop over one page: the items with a truthy asin overwrite the
\* index, in the page's order.
IndexItems(index, lib_items, pbi) ==
    PutItems(index, SelectSeq(lib_items, LAMBDA item : Truthy(item.asin)), pbi)

\* The page size the index builder asks for.
PageLimit == 100

\* Where the build goes after library lib_idx is exhausted.
NextLibrary ==
    IF lib_idx < Len(libraries)
    THEN /\ lib_idx' = lib_idx + 1
         /\ page' = 0
         /\ pc' = "index_page"
         /\ UNCHANGED book_idx
    ELSE /\ pc' = "sync_loop"
         /\ book_idx' = 1
         /\ UNCHANGED <<lib_idx, page>>

\* me_resp = client.get("/me"); progress_by_item
IndexMe ==
    /\ pc = "index_me"
    /\ \E ok \in BOOLEAN :
          /\ requests' = Append(requests, Request("GET", <<"me">>, ok))
          /\ IF Raises(ok)
             THEN /\ pc' = "error"
                  /\ UNCHANGED progress_by_item
             ELSE /\ pc' = "index_libs"
                  /\ progress_by_item' = ProgressByItem(<<>>, MeResponse)
    /\ asin_index' = <<>>
    /\ UNCHANGED <<inputs, server, io, printed, finished_books, libraries, lib_idx,
                   page, book_idx, table, tallies, itemLocals, prev>>

\* libs_resp = client.get("/libraries"); the for loop starts
IndexLibs ==
    /\ pc = "index_libs"
    /\ \E ok \in BOOLEAN :
          /\ requests' = Append(requests, Request("GET", <<"libraries">>, ok))
          /\ IF Raises(ok)
             THEN /\ pc' = "error"
                  /\ UNCHANGED <<libraries, lib_idx, page, book_idx>>
             ELSE /\ libraries' = LibrariesResponse
                  /\ IF LibrariesResponse = <<>>
                     THEN /\ pc' = "sync_loop"
                          /\ book_idx' = 1
                          /\ UNCHANGED <<lib_idx, page>>
                     ELSE /\ pc' = "index_page"
                          /\ lib_idx' = 1
                          /\ page' = 0
                          /\ UNCHANGED book_idx
    /\ UNCHANGED <<inputs, server, io, printed, finished_books, progress_by_item,
                   asin_index, table, tallies, itemLocals, prev>>

\* A variant of PageRaises that takes a failed page for a good one.
PageRaisesNever(ok) == FALSE

\* resp.raise_for_status() on a page's response.
PageRaises(ok) == Raises(ok)

\* A variant of LastPage that goes on when the pages so far hold exactly total.
LastPageStrict(p, total) == (p + 1) * PageLimit > total

\* if (page + 1) * 100 >= total: break
LastPage(p, total) == (p + 1) * PageLimit >= total

\* One pass of the while loop: one page of one library.
IndexPage ==
    /\ pc = "index_page"
    /\ LET lib_id == libraries[lib_idx].id
           result == ItemsPage(lib_id, PageLimit, page)
           lib_items == result.results
           total == result.total
       IN \E ok \in BOOLEAN :
          /\ requests' = Append(requests,
                                Request("GET", <<"libraries", lib_id, "items", page>>, ok))
          /\ IF PageRaises(ok)
             THEN /\ pc' = "error"
                  /\ UNCHANGED <<asin_index, lib_idx, page, book_idx>>
             ELSE IF lib_items = <<>>
             THEN /\ NextLibrary
                  /\ UNCHANGED asin_index
             ELSE /\ asin_index' = IndexItems(asin_index, lib_items, progress_by_item)
                  /\ IF LastPage(page, total)
                     THEN NextLibrary
                     ELSE /\ page' = page + 1
                          /\ UNCHANGED <<pc, lib_idx, book_idx>>
    /\ UNCHANGED <<inputs, server, io, printed, finished_books, progress_by_item,
                   libraries, table, tallies, itemLocals, prev>>

\* ------------------------------------------------------------ progress sync

\* One row of the result table.
Row(book, matched, abs_title, aktion) ==
    [title |-> book.title, source |-> book.source, asin |-> book.asin,
     abs_match |-> matched, abs_title |-> abs_title, aktion |-> aktion]

\* not libation_db and not audible_export
NoSource == argv.libation_db = None /\ argv.audible_export = None

\* A variant of SyncStart that fetches the client before the usage check.
SyncStartClientFirst ==
    /\ pc = "start"
    /\ argv.cmd = "sync"
    /\ io' = io \cup ClientIo
    /\ IF ClientFails
       THEN /\ pc' = "error"
            /\ UNCHANGED printed
       ELSE IF NoSource
       THEN /\ pc' = "usage_error"
            /\ UNCHANGED printed
       ELSE /\ pc' = "sync_read"
            /\ printed' = IF argv.apply THEN printed
                          ELSE Append(printed, "dry_run_notice")
    /\ UNCHANGED <<inputs, server, requests, locals, prev>>

\* The usage check, ctx.obj["client"] and the dry-run notice.
SyncStart ==
    /\ pc = "start"
    /\ argv.cmd = "sync"
    /\ IF NoSource
       THEN /\ pc' = "usage_error"
            /\ UNCHANGED <<io, printed>>
       ELSE /\ io' = io \cup ClientIo
            /\ IF ClientFails
               THEN /\ pc' = "error"
                    /\ UNCHANGED printed
               ELSE /\ pc' = "sync_read"
                    /\ printed' = IF argv.apply THEN printed
                                  ELSE Append(printed, "dry_run_notice")
    /\ UNCHANGED <<inputs, server, requests, locals, prev>>

\* A variant of Extend that puts the new books first.
ExtendFront(books, more) == more \o books

\* finished_books.extend(...)
Extend(books, more) == books \o more

\* The sources given are read, Libation first; a reader that raises ends the
\* run in an error, nothing to do ends it too.
SyncReadSources ==
    /\ pc = "sync_read"
    /\ LET libation_books == IF argv.libation_db # None
                             THEN ReadLibationFinished(libationDb) ELSE <<>>
           raises == argv.audible_export # None /\ ExportRaises(exportFile)
           audible_books == IF argv.audible_export # None
                            THEN ReadAudibleExportFinished(exportFile) ELSE <<>>
       IN /\ io' = io \cup (IF argv.libation_db # None THEN {"read_libation"} ELSE {})
                      \cup (IF argv.audible_export # None THEN {"read_export"} ELSE {})
          /\ IF raises
             THEN /\ pc' = "error"
                  /\ finished_books' = Extend(<<>>, libation_books)
                  /\ UNCHANGED printed
             ELSE /\ finished_books' = Extend(Extend(<<>>, libation_books), audible_books)
                  /\ IF libation_books \o audible_books = <<>>
                     THEN /\ pc' = "done"
                          /\ printed' = Append(printed, "none_found")
                     ELSE /\ pc' = "index_me"
                          /\ UNCHANGED printed
    /\ UNCHANGED <<inputs, server, requests, indexLocals, book_idx, table, tallies,
                   itemLocals, prev>>

\* A variant of Lookup that falls back to some entry of the index on a miss.
LookupAny(index, asin) ==
    IF asin \in DOMAIN index THEN <<index[asin]>>
    ELSE IF DOMAIN index = {} THEN <<>>
    ELSE <<index[CHOOSE a \in DOMAIN index : TRUE]>>

\* abs_item = asin_index.get(book.asin): no entry (None) or the entry.
Lookup(index, asin) == IF asin \in DOMAIN index THEN <<index[asin]>> ELSE <<>>

\* A variant of IsAlreadyFinished that never skips.
IsAlreadyFinishedNever(abs_item) == FALSE

\* if abs_item["is_finished"]
IsAlreadyFinished(abs_item) == abs_item.is_finished

\* A variant of WriteGate that writes in a dry run too.
WriteGateOpen(apply) == TRUE

\* if apply
WriteGate(apply) == apply

\* A variant of WriteRaises that lets a failure status of the PATCH pass.
WriteRaisesNever(ok) == FALSE

\* resp.raise_for_status() on the PATCH's response.
WriteRaises(ok) == Raises(ok)

\* A variant of TallySynced that counts only under --apply.
TallySyncedApplied(n, apply) == IF apply THEN n + 1 ELSE n

\* synced += 1, after the if/else on apply
TallySynced(n, apply) == n + 1

\* A variant of IndexAfterWrite that marks the written item finished in the
\* index.
IndexAfterWriteMarked(index, asin) ==
    [index EXCEPT ![asin] = [@ EXCEPT !.is_finished = TRUE]]

\* The index after the write of a record: the loop never assigns to it.
IndexAfterWrite(index, asin) == index

\* One pass of the for loop over finished_books.
SyncRecord ==
    /\ pc = "sync_loop"
    /\ book_idx <= Len(finished_books)
    /\ LET book == finished_books[book_idx]
           found == Lookup(asin_index, book.asin)
       IN IF found = <<>>
          THEN /\ table' = Append(table, Row(book, "Nein", "-", "-"))
               /\ not_found' = not_found + 1
               /\ book_idx' = book_idx + 1
               /\ UNCHANGED <<pc, requests, mediaProgress, synced, skipped, asin_index>>
          ELSE LET abs_item == found[1] IN
          IF IsAlreadyFinished(abs_item)
          THEN /\ table' = Append(table, Row(book, "Ja", abs_item.title,
                                             "Bereits abgeschlossen"))
               /\ skipped' = skipped + 1
               /\ book_idx' = book_idx + 1
               /\ UNCHANGED <<pc, requests, mediaProgress, synced, not_found, asin_index>>
          ELSE IF WriteGate(argv.apply)
          THEN \E ok \in BOOLEAN :
               /\ requests' = Append(requests,
                      Request("PATCH", <<"me", "progress", abs_item.item_id>>, ok))
               /\ mediaProgress' = IF ok THEN PatchProgress(mediaProgress, abs_item.item_id)
                                   ELSE mediaProgress
               /\ IF WriteRaises(ok)
                  THEN /\ pc' = "error"
                       /\ UNCHANGED <<table, book_idx, tallies, asin_index>>
                  ELSE /\ table' = Append(table, Row(book, "Ja", abs_item.title,
                                                     "Synchronisiert"))
                       /\ asin_index' = IndexAfterWrite(asin_index, book.asin)
                       /\ synced' = TallySynced(synced, argv.apply)
                       /\ book_idx' = book_idx + 1
                       /\ UNCHANGED <<pc, skipped, not_found>>
          ELSE /\ table' = Append(table, Row(book, "Ja", abs_item.title,
                                             "Wuerde synchronisieren"))
               /\ synced' = TallySynced(synced, argv.apply)
               /\ book_idx' = book_idx + 1
               /\ UNCHANGED <<pc, requests, mediaProgress, skipped, not_found, asin_index>>
    /\ UNCHANGED <<inputs, srvLibraries, io, printed, finished_books, progress_by_item,
                   libraries, lib_idx, page, itemLocals, prev>>

\* console.print(table) and the summary line.
SyncFinish ==
    /\ pc = "sync_loop"
    /\ book_idx > Len(finished_books)
    /\ printed' = printed \o <<"table", "summary">>
    /\ pc' = "done"
    /\ UNCHANGED <<inputs, server, io, requests, locals, prev>>

\* ------------------------------------------------------------- items delete

\* client = ctx.obj["client"]
DeleteStart ==
    /\ pc = "start"
    /\ argv.cmd = "delete"
    /\ io' = io \cup ClientIo
    /\ pc' = IF ClientFails THEN "error" ELSE "delete_get"
    /\ UNCHANGED <<inputs, server, requests, printed, locals, prev>>

\* A variant of DryRun that never stops the command.
DryRunIgnored(dry_run) == FALSE

\* if dry_run
DryRun(dry_run) == dry_run

\* The item is fetched and shown; a dry run ends here.
DeleteGet ==
    /\ pc = "delete_get"
    /\ \E ok \in Statuses(argv.item_id \in ItemIds(srvLibraries)) :
          /\ requests' = Append(requests, Request("GET", <<"items", argv.item_id>>, ok))
          /\ IF Raises(ok)
             THEN /\ pc' = "error"
                  /\ UNCHANGED printed
             ELSE IF DryRun(argv.dry_run)
             THEN /\ pc' = "done"
                  /\ printed' = printed \o <<"panel", "dry_run_notice">>
             ELSE /\ pc' = "delete_confirm"
                  /\ printed' = Append(printed, "panel")
    /\ UNCHANGED <<inputs, server, io, locals, prev>>

\* A variant of Declined that takes every answer for a yes.
DeclinedNever(answer) == FALSE

\* if not click.confirm(...): anything but a yes ends the command.
Declined(answer) == answer # "y"

\* The terminal I/O of the prompt, as an event of io.
ConfirmEvent(answer) ==
    IF answer = "y" THEN "confirm_y"
    ELSE IF answer = "n" THEN "confirm_n" ELSE "confirm_abort"

\* click.confirm("Wirklich loeschen?"): yes, no, or no input (Abort).
DeleteConfirm ==
    /\ pc = "delete_confirm"
    /\ \E answer \in {"y", "n", "abort"} :
          /\ io' = io \cup {ConfirmEvent(answer)}
          /\ IF answer = "abort"
             THEN /\ pc' = "error"
                  /\ UNCHANGED printed
             ELSE IF Declined(answer)
             THEN /\ pc' = "done"
                  /\ printed' = Append(printed, "Abgebrochen")
             ELSE /\ pc' = "delete_send"
                  /\ UNCHANGED printed
    /\ UNCHANGED <<inputs, server, requests, locals, prev>>

\* del_resp = client.delete(...)
DeleteSend ==
    /\ pc = "delete_send"
    /\ \E ok \in Statuses(argv.item_id \in ItemIds(srvLibraries)) :
          /\ requests' = Append(requests,
                                Request("DELETE", <<"items", argv.item_id>>, ok))
          /\ IF ok
             THEN /\ srvLibraries' = DeleteItem(srvLibraries, argv.item_id)
                  /\ mediaProgress' = DeleteProgress(mediaProgress, argv.item_id)
             ELSE UNCHANGED server
          /\ IF Raises(ok)
             THEN /\ pc' = "error"
                  /\ UNCHANGED printed
             ELSE /\ pc' = "done"
                  /\ printed' = Append(printed, "geloescht")
    /\ UNCHANGED <<inputs, io, locals, prev>>

\* -------------------------------------------------------------- items match

\* client = ctx.obj["client"], then the checks of the arguments.
MatchStart ==
    /\ pc = "start"
    /\ argv.cmd = "match"
    /\ io' = io \cup ClientIo
    /\ pc' = IF ClientFails THEN "error"
             ELSE IF argv.match_all
                  THEN (IF argv.library_id = <<>> THEN "usage_error" ELSE "match_list")
                  ELSE (IF argv.item_id = <<>> THEN "usage_error" ELSE "match_one")
    /\ UNCHANGED <<inputs, server, requests, printed, locals, prev>>

\* --all: the library's items are listed (limit=0: all of them).
MatchList ==
    /\ pc = "match_list"
    /\ LET lib_id == argv.library_id[1] IN
       \E ok \in Statuses(lib_id \in LibraryIds) :
          /\ requests' = Append(requests,
                                Request("GET", <<"libraries", lib_id, "items">>, ok))
          /\ IF Raises(ok)
             THEN /\ pc' = "error"
                  /\ UNCHANGED <<printed, results, idx>>
             ELSE /\ pc' = "match_loop"
                  /\ results' = ItemsPage(lib_id, 0, 0).results
                  /\ idx' = 1
                  /\ printed' = Append(printed, "Matche")
    /\ UNCHANGED <<inputs, server, io, syncLocals, library_ids, success, errors, prev>>

\* A variant of MatchItem in which a failed match request ends the command.
MatchItemAborting ==
    /\ pc = "match_loop"
    /\ idx <= Len(results)
    /\ LET iid == results[idx].id IN
       \E ok \in Statuses(iid \in ItemIds(srvLibraries)) :
          /\ requests' = Append(requests, Request("POST", <<"items", iid, "match">>, ok))
          /\ IF Raises(ok)
             THEN /\ pc' = "error"
                  /\ UNCHANGED <<success, errors, idx, printed>>
             ELSE /\ success' = success + 1
                  /\ idx' = idx + 1
                  /\ printed' = Append(printed, "item")
                  /\ UNCHANGED <<pc, errors>>
    /\ UNCHANGED <<inputs, server, io, syncLocals, results, library_ids, prev>>

\* --all: one pass of the loop; a failure is caught and counted.
MatchItem ==
    /\ pc = "match_loop"
    /\ idx <= Len(results)
    /\ LET iid == results[idx].id IN
       \E ok \in Statuses(iid \in ItemIds(srvLibraries)) :
          /\ requests' = Append(requests, Request("POST", <<"items", iid, "match">>, ok))
          /\ IF Raises(ok)
             THEN /\ errors' = errors + 1
                  /\ UNCHANGED success
             ELSE /\ success' = success + 1
                  /\ UNCHANGED errors
    /\ idx' = idx + 1
    /\ printed' = Append(printed, "item")
    /\ UNCHANGED <<inputs, server, pc, io, syncLocals, results, library_ids, prev>>

\* --all: the closing line.
MatchFinish ==
    /\ pc = "match_loop"
    /\ idx > Len(results)
    /\ pc' = "done"
    /\ printed' = Append(printed, "Fertig")
    /\ UNCHANGED <<inputs, server, io, requests, locals, prev>>

\* A single item: the match request is sent at once.
MatchOne ==
    /\ pc = "match_one"
    /\ LET iid == argv.item_id[1] IN
       \E ok \in Statuses(iid \in ItemIds(srvLibraries)) :
          /\ requests' = Append(requests, Request("POST", <<"items", iid, "match">>, ok))
          /\ IF Raises(ok)
             THEN /\ pc' = "error"
                  /\ UNCHANGED printed
             ELSE /\ pc' = "done"
                  /\ printed' = Append(printed, "updated")
    /\ UNCHANGED <<inputs, server, io, locals, prev>>

\* ------------------------------------------------------------- library scan

\* client = ctx.obj["client"]; a LIBRARY_ID given is the only one scanned.
ScanStart ==
    /\ pc = "start"
    /\ argv.cmd = "scan"
    /\ io' = io \cup ClientIo
    /\ IF ClientFails
       THEN /\ pc' = "error"
            /\ UNCHANGED <<library_ids, idx>>
       ELSE IF argv.library_id # <<>>
       THEN /\ pc' = "scan_loop"
            /\ library_ids' = argv.library_id
            /\ idx' = 1
       ELSE /\ pc' = "scan_list"
            /\ UNCHANGED <<library_ids, idx>>
    /\ UNCHANGED <<inputs, server, requests, printed, syncLocals, results, success,
                   errors, prev>>

\* Without LIBRARY_ID all libraries are listed.
ScanList ==
    /\ pc = "scan_list"
    /\ \E ok \in BOOLEAN :
          /\ requests' = Append(requests, Request("GET", <<"libraries">>, ok))
          /\ IF Raises(ok)
             THEN /\ pc' = "error"
                  /\ UNCHANGED <<library_ids, idx>>
             ELSE /\ pc' = "scan_loop"
                  /\ library_ids' = [l \in 1..Len(LibrariesResponse) |->
                                        LibrariesResponse[l].id]
                  /\ idx' = 1
    /\ UNCHANGED <<inputs, server, io, printed, syncLocals, results, success, errors, prev>>

\* One pass of the loop: the scan of one library is started.
ScanPost ==
    /\ pc = "scan_loop"
    /\ idx <= Len(library_ids)
    /\ LET lib_id == library_ids[idx] IN
       \E ok \in Statuses(lib_id \in LibraryIds) :
          /\ requests' = Append(requests,
                                Request("POST", <<"libraries", lib_id, "scan">>, ok))
          /\ IF Raises(ok)
             THEN /\ pc' = "error"
                  /\ UNCHANGED <<printed, idx>>
             ELSE /\ printed' = Append(printed, "Scan gestartet")
                  /\ idx' = idx + 1
                  /\ UNCHANGED pc
    /\ UNCHANGED <<inputs, server, io, syncLocals, results, library_ids, success,
                   errors, prev>>

\* The closing line.
ScanFinish ==
    /\ pc = "scan_loop"
    /\ idx > Len(library_ids)
    /\ pc' = "done"
    /\ printed' = Append(printed, "werden gescannt")
    /\ UNCHANGED <<inputs, server, io, requests, locals, prev>>

\* --------------------------------------------------------------- the group

\* The command line is run again: a new process, a new lazy context, the
\* server as the run before left it.  Only an applied sync is followed into
\* a second invocation: a dry run meets the server it met before.
Reinvoke ==
    /\ pc = "done"
    /\ argv.cmd = "sync"
    /\ argv.apply
    /\ prev' = [ran |-> TRUE, table |-> table]
    /\ pc' = "start"
    /\ io' = {}
    /\ requests' = <<>>
    /\ printed' = <<>>
    /\ finished_books' = <<>>
    /\ progress_by_item' = <<>>
    /\ libraries' = <<>>
    /\ lib_idx' = 0
    /\ page' = 0
    /\ asin_index' = <<>>
    /\ book_idx' = 0
    /\ table' = <<>>
    /\ synced' = 0
    /\ skipped' = 0
    /\ not_found' = 0
    /\ results' = <<>>
    /\ library_ids' = <<>>
    /\ idx' = 0
    /\ success' = 0
    /\ errors' = 0
    /\ UNCHANGED <<inputs, server>>

Next ==
    \/ SyncStart
    \/ SyncReadSources
    \/ IndexMe
    \/ IndexLibs
    \/ IndexPage
    \/ SyncRecord
    \/ SyncFinish
    \/ DeleteStart
    \/ DeleteGet
    \/ DeleteConfirm
    \/ DeleteSend
    \/ MatchStart
    \/ MatchList
    \/ MatchItem
    \/ MatchFinish
    \/ MatchOne
    \/ ScanStart
    \/ ScanList
    \/ ScanPost
    \/ ScanFinish
    \/ Reinvoke

Spec == Init /\ [][Next]_vars

\* ------------------------------------------------- the readers on any file

\* The pairs the Libation join may meet: keys that are an id, empty or NULL.
LibationKeys == {"A1", "", Null}
LibationPairs ==
    {[AudibleProductId |-> a, Title |-> TitleOf(a), BookId |-> b, IsFinished |-> f] :
        a \in LibationKeys, b \in LibationKeys, f \in {0, 1}}

\* The JSON values of is_finished (by their literal; "str:true" is the
\* string "true") and of asin (null is None).
JsonFlags == {"true", "false", "1", "str:true", "null"}
JsonAsins == {"A1", "", None}

\* A JSON object with the keys given (<<>>: the key is absent).
JsonEntry(asin, title, flag) ==
    (IF asin = <<>> THEN <<>> ELSE "asin" :> asin[1])
        @@ (IF title = <<>> THEN <<>> ELSE "title" :> title[1])
        @@ (IF flag = <<>> THEN <<>> ELSE "is_finished" :> flag[1])
JsonEntries ==
    {JsonEntry(a, t, f) :
        a \in Optional(JsonAsins), t \in Optional({TitleOf("T")}), f \in Optional(JsonFlags)}

\* JSON documents that are no list: no JSON at all, an object with keys, one
\* without.
JsonOthers == {"invalid", "object", "empty_object"}

\* The cells a delimited export holds in its columns.
FinishedCells ==
    {<<"t", "r", "u", "e">>, <<"T", "R", "U", "E">>, <<"Y", "e", "s">>,
     <<" ", "1", "\t">>, <<"n", "o">>, <<>>}
CellsOf(column) ==
    IF column = "asin" THEN {"A1", ""}
    ELSE IF column = "title" THEN {TitleOf("T")}
    ELSE FinishedCells

\* The header lines: all columns, and one column missing.
Headers ==
    {<<"asin", "title", "is_finished">>, <<"asin", "title">>,
     <<"title", "is_finished">>, <<"asin", "is_finished">>}

RECURSIVE RowsOfLen(_, _)
\* The rows of n cells under a header, each cell from its column's values.
RowsOfLen(header, n) ==
    IF n = 0 THEN {<<>>}
    ELSE {Append(r, c) : r \in RowsOfLen(header, n - 1), c \in CellsOf(header[n])}

\* The rows under a header: a cell per column, or fewer (never none: the
\* reader skips empty lines).
RowsUnder(header) == UNION {RowsOfLen(header, n) : n \in 1..Len(header)}

\* How a delimited export is named and written: commas in a .csv, tabs in a
\* .tsv, and tabs in a file named .csv.
Writings ==
    {[suffix |-> ".csv", written |-> ","], [suffix |-> ".tsv", written |-> "\t"],
     [suffix |-> ".csv", written |-> "\t"]}

JsonFile(top, entries) == [suffix |-> ".json", doc |-> [top |-> top, entries |-> entries]]
DelimitedFile(w, lines) == [suffix |-> w.suffix, written |-> w.written, lines |-> lines]

\* The export files: JSON documents, and delimited files that are empty or
\* hold a header and rows.
InitExportFile ==
    \/ \E t \in JsonOthers : exportFile = JsonFile(t, <<>>)
    \/ \E e \in SeqsUpTo(JsonEntries, MaxEntries) : exportFile = JsonFile("list", e)
    \/ \E w \in Writings : exportFile = DelimitedFile(w, <<>>)
    \/ \E w \in Writings, h \in Headers :
          \E rows \in SeqsUpTo(RowsUnder(h), MaxEntries) :
             exportFile = DelimitedFile(w, <<h>> \o rows)

\* progress sync on one source whose contents vary; the server holds nothing
\* and the run is followed until the sources are read.
InitRead ==
    /\ \/ /\ argv = [cmd |-> "sync", libation_db |-> "libation.db",
                      audible_export |-> None, apply |-> FALSE]
          /\ libationDb \in SeqsUpTo(LibationPairs, MaxEntries)
          /\ exportFile = <<>>
       \/ /\ argv = [cmd |-> "sync", libation_db |-> None,
                      audible_export |-> "export", apply |-> FALSE]
          /\ libationDb = <<>>
          /\ InitExportFile
    /\ cfgFile = "token"
    /\ srvLibraries = <<>>
    /\ mediaProgress = <<>>
    /\ InitProcess
    /\ prev = [ran |-> FALSE, table |-> <<>>]

NextRead ==
    \/ SyncStart
    \/ SyncReadSources

SpecRead == InitRead /\ [][NextRead]_vars

\* ------------------------------------------------ sync on a paged catalog

\* Which items of a library carry the catalog id "A1": none ("plain"), the
\* first, the last, both.  The others carry none: no asin (None) or an empty
\* one.  The libraries: empty; one item; a full page whose first and last
\* item share the id; a page and an item, with the id on both pages or on
\* none; the most full pages and an item that carries the id.
LibShapes ==
    {[size |-> 0, layout |-> "plain"],
     [size |-> 1, layout |-> "plain"],
     [size |-> 1, layout |-> "first"],
     [size |-> PageLimit, layout |-> "both"],
     [size |-> PageLimit + 1, layout |-> "both"],
     [size |-> PageLimit + 1, layout |-> "plain"],
     [size |-> MaxPages * PageLimit + 1, layout |-> "last"]}

PagedAsin(shape, k) ==
    IF \/ k = 1 /\ shape.layout \in {"first", "both"}
       \/ k = shape.size /\ shape.layout \in {"last", "both"}
    THEN "A1"
    ELSE IF k % 2 = 1 THEN None ELSE ""

PagedCatalog(shapes) ==
    [l \in 1..Len(shapes) |->
        [id |-> l,
         items |-> [k \in 1..shapes[l].size |-> ItemAt(l, k, PagedAsin(shapes[l], k))]]]

\* The ids of the items that carry this catalog id, in the server's order.
IdsWith(libs, asin) ==
    LET its == SelectSeq(AllItems(libs), LAMBDA item : item.asin = asin)
    IN [k \in 1..Len(its) |-> its[k].id]

\* The user's progress: of the last item with "A1", and of the others with it.
ProgressPatterns ==
    {<<"none", "none">>, <<"finished", "unfinished">>, <<"unfinished", "finished">>,
     <<"none", "finished">>}
PagedProgress(libs, pattern) ==
    LET ids == IdsWith(libs, "A1")
    IN [i \in ItemIds(libs) |->
           IF ids # <<>> /\ i = ids[Len(ids)] THEN pattern[1]
           ELSE IF \E k \in 1..Len(ids) : ids[k] = i THEN pattern[2]
           ELSE "none"]

\* progress sync --apply of an export with two finished entries (a catalog
\* id and an empty one) on a catalog of several libraries and pages.
InitIndex ==
    /\ argv = [cmd |-> "sync", libation_db |-> None, audible_export |-> "export.json",
               apply |-> TRUE]
    /\ cfgFile = "token"
    /\ libationDb = <<>>
    /\ exportFile = JsonExportOf(<<"A1", "">>)
    /\ \E shapes \in SeqsUpTo(LibShapes, MaxPagedLibs) :
          /\ srvLibraries = PagedCatalog(shapes)
          /\ \E pattern \in ProgressPatterns :
                mediaProgress = PagedProgress(PagedCatalog(shapes), pattern)
    /\ InitProcess
    /\ prev = [ran |-> FALSE, table |-> <<>>]

NextIndex ==
    \/ SyncStart
    \/ SyncReadSources
    \/ IndexMe
    \/ IndexLibs
    \/ IndexPage
    \/ SyncRecord
    \/ SyncFinish

SpecIndex == InitIndex /\ [][NextIndex]_vars

\* ---------------------------------------------------- items match --all

\* items match --all on a server with one library of several items.
InitMatch ==
    /\ \E l \in Optional(ArgLibraryIds) :
          argv = [cmd |-> "match", item_id |-> <<>>, match_all |-> TRUE,
                  library_id |-> l, provider |-> "audible"]
    /\ cfgFile \in ConfigFiles
    /\ libationDb = <<>>
    /\ exportFile = <<>>
    /\ \E asins \in SeqsUpTo(ItemAsins, MaxMatchItems) : srvLibraries = Catalog(<<asins>>)
    /\ mediaProgress = [i \in ItemIds(srvLibraries) |-> "none"]
    /\ InitProcess
    /\ prev = [ran |-> FALSE, table |-> <<>>]

NextMatch ==
    \/ MatchStart
    \/ MatchList
    \/ MatchItem
    \/ MatchFinish

SpecMatch == InitMatch /\ [][NextMatch]_vars

\* ------------------------------------------------------------------ claims

Sync == argv.cmd = "sync"
Writes == {k \in 1..Len(requests) : requests[k].method \in MutatingMethods}
\* A write was sent while record k was being reconciled.
WriteAt(k) == \E j \in Writes : requests[j].at = k
Printed(tag) == \E k \in 1..Len(printed) : printed[k] = tag
RowsWith(aktionen) == {k \in 1..Len(table) : table[k].aktion \in aktionen}
\* The run stopped while record k was being reconciled.
AbortedAt(k) == pc = "error" /\ book_idx = k /\ k \in 1..Len(finished_books)
\* The record's catalog id has an index entry that is finished / has none.
RecordFinished(k) ==
    LET asin == finished_books[k].asin
    IN asin \in DOMAIN asin_index /\ asin_index[asin].is_finished
RecordMissing(k) == finished_books[k].asin \notin DOMAIN asin_index

\* C1: a progress sync without --apply sends no write (no PATCH nor any
\* other mutating request), whatever the records and the index hold.
C1_DryRunSendsNoWrite == (Sync /\ ~argv.apply) => Writes = {}

C1_Witness ==
    /\ Sync /\ ~argv.apply /\ pc = "done"
    /\ RowsWith({"Wuerde synchronisieren"}) # {}

\* C2: a record whose catalog id maps to a finished index entry gets the row
\* "Bereits abgeschlossen" (AlreadyFinished), is counted in skipped, and no
\* write is sent for it (the run does not stop at it either), also under
\* --apply.
C2_FinishedIsSkipped ==
    Sync =>
        /\ \A k \in 1..Len(table) :
              RecordFinished(k) =>
                  /\ table[k].aktion = "Bereits abgeschlossen"
                  /\ ~WriteAt(k)
        /\ \A k \in 1..Len(finished_books) : RecordFinished(k) => ~AbortedAt(k)
        /\ skipped = Cardinality(RowsWith({"Bereits abgeschlossen"}))

C2_Witness ==
    /\ Sync /\ argv.apply /\ pc = "done"
    /\ \E k \in 1..Len(table) : RecordFinished(k) /\ skipped >= 1

\* C3: a record whose catalog id is no key of the index gets the row
\* "Nein" / "-" (NoMatch), is counted in not_found, and no write is sent
\* for it, also under --apply.
C3_MissIsNoMatch ==
    Sync =>
        /\ \A k \in 1..Len(table) :
              RecordMissing(k) =>
                  /\ table[k].abs_match = "Nein"
                  /\ table[k].aktion = "-"
                  /\ ~WriteAt(k)
        /\ \A k \in 1..Len(finished_books) : RecordMissing(k) => ~AbortedAt(k)
        /\ not_found = Cardinality(RowsWith({"-"}))

C3_Witness ==
    /\ Sync /\ argv.apply /\ pc = "done"
    /\ \E k \in 1..Len(table) : RecordMissing(k) /\ not_found >= 1

\* C4: when an applied sync has ended successfully and the same command line
\* is run again, the second run (its index rebuilt from the server) sends no
\* write, and every record the first run reported "Synchronisiert" (Synced)
\* is reported "Bereits abgeschlossen" (AlreadyFinished).
C4_SecondRunWritesNothing ==
    (Sync /\ argv.apply /\ prev.ran) =>
        /\ Writes = {}
        /\ \A k \in 1..Len(table) :
              /\ k <= Len(prev.table)
              /\ prev.table[k].aktion = "Synchronisiert" =>
                     table[k].aktion = "Bereits abgeschlossen"
        /\ pc = "done" => Len(table) = Len(prev.table)

C4_Witness ==
    /\ Sync /\ argv.apply /\ prev.ran /\ pc = "done"
    /\ \E k \in 1..Len(table) :
          /\ prev.table[k].aktion = "Synchronisiert"
          /\ table[k].aktion = "Bereits abgeschlossen"

\* C5 as claimed: synced counts only the writes sent and answered with
\* success, so a run without --apply ends with synced = 0.
C5_SyncedCountsOnlyWrites ==
    (Sync /\ pc = "done") =>
        /\ synced = Cardinality({k \in Writes : requests[k].ok})
        /\ ~argv.apply => synced = 0

\* C5 as amended: synced counts every matched record that is not finished
\* yet, previewed or written: without --apply it is the number of "Wuerde
\* synchronisieren" rows (and no write is sent), under --apply it is the
\* number of writes sent and answered with success, which at the end of the
\* run are all the writes sent.
C5_SyncedCountsPreviewsToo ==
    Sync =>
        /\ synced = Cardinality(RowsWith({"Synchronisiert", "Wuerde synchronisieren"}))
        /\ ~argv.apply =>
              /\ synced = Cardinality(RowsWith({"Wuerde synchronisieren"}))
              /\ Writes = {}
        /\ argv.apply => synced = Cardinality({k \in Writes : requests[k].ok})
        /\ (argv.apply /\ pc = "done") => synced = Cardinality(Writes)

C5_Witness ==
    /\ Sync /\ ~argv.apply /\ pc = "done"
    /\ synced = 1 /\ skipped = 0 /\ not_found = 0
    /\ Writes = {}

\* C6: under --apply a write answered with a failure status stops the run at
\* that record: it is the last request the run sends, the record gets no
\* row, and the run ends in an error with neither table nor summary printed.
C6_FailedWriteAborts ==
    Sync =>
        \A k \in Writes :
            ~requests[k].ok =>
                /\ k = Len(requests)
                /\ pc = "error"
                /\ Len(table) < requests[k].at
                /\ ~Printed("table")
                /\ ~Printed("summary")

C6_Witness ==
    /\ Sync /\ argv.apply /\ pc = "error"
    /\ \E k \in Writes : ~requests[k].ok
    /\ book_idx < Len(finished_books)

\* The invocation carries the command's opt-in flag.
OptedIn ==
    \/ argv.cmd = "sync" /\ argv.apply
    \/ argv.cmd = "delete" /\ ~argv.dry_run

\* C7 as claimed: no command sends a mutating request unless the invocation
\* carries an opt-in flag (items match and library scan have none).
C7_NoWriteWithoutOptIn == ~OptedIn => Writes = {}

\* C7 as amended: progress sync and items delete send no mutating request
\* unless --apply, respectively --no-dry-run, is given (items match and
\* library scan have no dry-run mode and send their POST unasked).
C7_SyncAndDeleteNeedOptIn ==
    (argv.cmd \in {"sync", "delete"} /\ ~OptedIn) => Writes = {}

C7_Witness ==
    /\ argv.cmd = "delete" /\ argv.dry_run /\ pc = "done"
    /\ Printed("dry_run_notice")

\* C8: items delete sends DELETE only with --no-dry-run, after the prompt
\* was answered yes, and after the GET of the item succeeded.
C8_DeleteNeedsFlagAndYes ==
    argv.cmd = "delete" =>
        \A k \in 1..Len(requests) :
            requests[k].method = "DELETE" =>
                /\ ~argv.dry_run
                /\ "confirm_y" \in io
                /\ \E j \in 1..(k - 1) : requests[j].method = "GET" /\ requests[j].ok

C8_Witness ==
    /\ argv.cmd = "delete" /\ pc = "done"
    /\ \E k \in 1..Len(requests) : requests[k].method = "DELETE" /\ requests[k].ok

\* C9: progress sync without a source ends in a usage error before any I/O:
\* no configuration read, no client, no source file read, no request.
C9_SyncUsageErrorBeforeIo ==
    (Sync /\ NoSource) =>
        /\ io = {}
        /\ requests = <<>>
        /\ pc \in {"start", "usage_error"}

C9_Witness == Sync /\ NoSource /\ pc = "usage_error"

\* The arguments of items match do not name what to match.
BadMatchArgs ==
    /\ argv.cmd = "match"
    /\ IF argv.match_all THEN argv.library_id = <<>> ELSE argv.item_id = <<>>

\* C10 as claimed: items match with unsatisfied arguments ends in a usage
\* error before any I/O: no configuration read, no credential subprocess, no
\* client, no request.
C10_MatchUsageErrorBeforeIo ==
    BadMatchArgs =>
        /\ io = {}
        /\ requests = <<>>
        /\ pc \in {"start", "usage_error"}

\* The export reader has run on the file the command line names.
ExportRead == Sync /\ argv.audible_export # None /\ "read_export" \in io
LibationRead == Sync /\ argv.libation_db # None /\ "read_libation" \in io
IsJson == exportFile.suffix = ".json"
\* The delimited file is written with the delimiter its suffix stands for.
WellSplit ==
    \/ exportFile.suffix = ".tsv" /\ exportFile.written = "\t"
    \/ exportFile.suffix # ".tsv" /\ exportFile.written = ","
\* The header of a delimited file names this column (and the reader sees it).
HasColumn(name) ==
    /\ exportFile.lines # <<>>
    /\ WellSplit \/ Len(exportFile.lines[1]) <= 1
    /\ \E p \in 1..Len(exportFile.lines[1]) : exportFile.lines[1][p] = name
ColumnOf(name) ==
    CHOOSE p \in 1..Len(exportFile.lines[1]) : exportFile.lines[1][p] = name
\* Row k (below the header) is too short to hold the cell of this column.
LacksCell(k, name) == Len(exportFile.lines[k + 1]) < ColumnOf(name)
DataRows == 1..(Len(exportFile.lines) - 1)
JsonList == IsJson /\ exportFile.doc.top = "list"

\* C14 as claimed: the readers return only records with a usable (present,
\* non-empty) catalog id, and a finished entry without one is skipped: it
\* does not make the reader of a well-formed JSON list end in an error.
C14_ReadersSkipUnusableIds ==
    /\ (ExportRead \/ LibationRead) =>
          \A k \in 1..Len(finished_books) :
              finished_books[k].asin \notin {"", None, Null}
    /\ (ExportRead /\ JsonList) => pc # "error"

\* C15 as claimed: an export that is malformed (no JSON list, a file written
\* with another delimiter, a row shorter than the header) or whose header
\* lacks asin or is_finished makes the reader end in an error.
C15_BadExportIsFatal ==
    (ExportRead
        /\ IF IsJson THEN ~JsonList
           ELSE \/ ~HasColumn("asin")
                \/ ~HasColumn("is_finished")
                \/ \E k \in DataRows :
                      Len(exportFile.lines[k + 1]) < Len(exportFile.lines[1]))
    => pc = "error"

\* C15 as amended: text that is no JSON, a JSON object with keys, and a row
\* too short for the is_finished cell its header names make the reader end
\* in an error; a JSON object without keys and a delimited file whose header
\* lacks is_finished (a file written with the other delimiter among them)
\* are read without error and give no record; a delimited file whose header
\* lacks only asin is read without error and gives a record with an empty
\* catalog id per finished row.
C15_OnlyUnparseableIsFatal ==
    ExportRead =>
        /\ (IsJson /\ exportFile.doc.top \in {"invalid", "object"}) => pc = "error"
        /\ (IsJson /\ exportFile.doc.top = "empty_object") =>
              /\ pc = "done"
              /\ finished_books = <<>>
        /\ (~IsJson /\ ~HasColumn("is_finished")) =>
              /\ pc = "done"
              /\ finished_books = <<>>
        /\ (~IsJson /\ HasColumn("is_finished")) =>
              (pc = "error" <=> \E k \in DataRows : LacksCell(k, "is_finished"))
        /\ (~IsJson /\ HasColumn("is_finished") /\ ~HasColumn("asin")) =>
              \A k \in 1..Len(finished_books) : finished_books[k].asin = ""

C15_Witness ==
    /\ ExportRead /\ ~IsJson /\ WellSplit
    /\ exportFile.lines # <<>>
    /\ exportFile.lines[1] = <<"asin", "title">>
    /\ Len(exportFile.lines) = 3
    /\ pc = "done"
    /\ Printed("none_found")

\* The is_finished cells that, trimmed and lower-cased, are "true", "1" or
\* "yes": true, TRUE, Yes and 1 between a blank and a tab.
AcceptedCells ==
    {<<"t", "r", "u", "e">>, <<"T", "R", "U", "E">>, <<"Y", "e", "s">>,
     <<" ", "1", "\t">>}

\* Entry k of the export (list entry, row below the header) is marked
\* finished by the rule of its format.
Marked(k) ==
    IF IsJson
    THEN /\ "is_finished" \in DOMAIN exportFile.doc.entries[k]
         /\ exportFile.doc.entries[k]["is_finished"] = "true"
    ELSE /\ HasColumn("is_finished")
         /\ exportFile.lines[k + 1][ColumnOf("is_finished")] \in AcceptedCells
ExportEntries == IF IsJson THEN 1..Len(exportFile.doc.entries) ELSE DataRows
\* The j-th marked entry, in file order.
NthMarked(j) ==
    CHOOSE k \in ExportEntries :
        Marked(k) /\ Cardinality({i \in 1..k : Marked(i)}) = j
\* The catalog id entry k carries (a delimited file without asin column: "").
AsinOfEntry(k) ==
    IF IsJson THEN exportFile.doc.entries[k]["asin"]
    ELSE IF HasColumn("asin") THEN exportFile.lines[k + 1][ColumnOf("asin")]
    ELSE ""

\* C16: when the export reader returns, the records are exactly the entries
\* marked finished (.json: is_finished is the literal true, not 1, not the
\* string "true", not null; .tsv/.csv: the cell, trimmed and lower-cased, is
\* "true", "1" or "yes"), in file order, each with the source "Audible".
C16_ExportInclusionRule ==
    (ExportRead /\ pc # "error" /\ (IsJson => JsonList)) =>
        /\ Len(finished_books) = Cardinality({k \in ExportEntries : Marked(k)})
        /\ \A j \in 1..Len(finished_books) :
              /\ finished_books[j].asin = AsinOfEntry(NthMarked(j))
              /\ finished_books[j].source = "Audible"

C16_Witness ==
    /\ ExportRead /\ JsonList /\ pc = "index_me"
    /\ Len(exportFile.doc.entries) = 2
    /\ DictGet(exportFile.doc.entries[1], "is_finished", "null") = "str:true"
    /\ DictGet(exportFile.doc.entries[2], "is_finished", "null") = "true"
    /\ Len(finished_books) = 1
    /\ finished_books[1].source = "Audible"

\* What the index, as it is, decides for a catalog id.
OutcomeOf(asin) ==
    IF asin \notin DOMAIN asin_index THEN "-"
    ELSE IF asin_index[asin].is_finished THEN "Bereits abgeschlossen"
    ELSE IF argv.apply THEN "Synchronisiert"
    ELSE "Wuerde synchronisieren"
\* Request j is the write sent for record k to the item of its index entry.
WriteFor(j, k) ==
    /\ requests[j].method = "PATCH"
    /\ requests[j].at = k
    /\ requests[j].path = <<"me", "progress", asin_index[finished_books[k].asin].item_id>>

\* C18: the index is one snapshot: the loop over the records never changes
\* it, every row is what the snapshot decides for the record's catalog id
\* alone (so records with the same id get the same outcome, whatever came
\* before), and every "Synchronisiert" row has its own write to the item of
\* its entry: two records with the catalog id of one unfinished item are
\* written twice under --apply.
C18_RowsDependOnSnapshotOnly ==
    /\ [][pc = "sync_loop" => asin_index' = asin_index]_vars
    /\ [](Sync =>
            \A k \in 1..Len(table) :
                /\ table[k].aktion = OutcomeOf(finished_books[k].asin)
                /\ table[k].aktion = "Synchronisiert" =>
                      Cardinality({j \in Writes : WriteFor(j, k)}) = 1)

C18_Witness ==
    /\ Sync /\ argv.apply /\ pc = "done"
    /\ Len(table) = 2
    /\ finished_books[1].asin = finished_books[2].asin
    /\ table[1].aktion = "Synchronisiert"
    /\ table[2].aktion = "Synchronisiert"
    /\ \E i, j \in Writes : i < j /\ WriteFor(i, 1) /\ WriteFor(j, 2)

\* The catalog ids the sources hold, Libation's first (every entry of the
\* sources is finished here).
SourceAsins ==
    [k \in 1..Len(libationDb) |-> libationDb[k].AudibleProductId]
        \o (IF argv.audible_export = None THEN <<>>
            ELSE [k \in 1..Len(exportFile.doc.entries) |->
                     exportFile.doc.entries[k].asin])

\* C19: the records are Libation's followed by the export's, each in its
\* source's order; the rows are the records' in that order; the writes are
\* sent in that order too, each while its record is the one being
\* reconciled (before the next record gets its row).
C19_InputOrderKept ==
    /\ []((Sync /\ (io \cap {"read_libation", "read_export"}) # {}) =>
            /\ Len(finished_books) = Len(SourceAsins)
            /\ \A k \in 1..Len(finished_books) :
                  /\ finished_books[k].asin = SourceAsins[k]
                  /\ finished_books[k].source =
                        (IF k <= Len(libationDb) THEN "Libation" ELSE "Audible")
            /\ Len(table) <= Len(finished_books)
            /\ \A k \in 1..Len(table) :
                  /\ table[k].asin = finished_books[k].asin
                  /\ table[k].source = finished_books[k].source
                  /\ table[k].title = finished_books[k].title
            /\ \A i, j \in Writes : i < j => requests[i].at < requests[j].at
            /\ \A j \in Writes : requests[j].at \in 1..Len(finished_books))
    /\ [][(Sync /\ Len(requests') = Len(requests) + 1
                /\ requests'[Len(requests')].method = "PATCH") =>
              /\ requests'[Len(requests')].at = Len(table) + 1
              /\ Len(table') <= Len(table) + 1]_vars

C19_Witness ==
    /\ Sync /\ argv.apply /\ pc = "done"
    /\ Len(table) = 2
    /\ table[1].source = "Libation" /\ table[1].aktion = "-"
    /\ table[2].source = "Audible" /\ table[2].aktion = "Synchronisiert"
    /\ table[1].asin # table[2].asin
    /\ \E j \in Writes : requests[j].at = 2

\* The match requests sent so far, in the order sent.
Posts == SelectSeq(requests, LAMBDA r : r.method = "POST")
\* items match --all has listed the library's items.
Listed ==
    /\ argv.cmd = "match" /\ argv.match_all
    /\ \E k \in 1..Len(requests) : requests[k].method = "GET" /\ requests[k].ok

\* C17: in items match --all a failed match request never ends the batch:
\* once the items are listed the command does not end in an error, the match
\* requests are one per listed item in listing order (the server's order),
\* success + errors counts the requests sent (errors the failed ones), and at
\* the end every listed item has had its request.
C17_MatchAllTalliesFailures ==
    Listed =>
        /\ pc \in {"match_loop", "done"}
        /\ Len(results) = Len(srvLibraries[1].items)
        /\ Len(Posts) <= Len(results)
        /\ \A k \in 1..Len(Posts) :
              Posts[k].path = <<"items", srvLibraries[1].items[k].id, "match">>
        /\ errors = Cardinality({k \in 1..Len(Posts) : ~Posts[k].ok})
        /\ success + errors = Len(Posts)
        /\ pc = "done" =>
              /\ Len(Posts) = Len(results)
              /\ Printed("Fertig")

C17_Witness ==
    /\ Listed /\ pc = "done"
    /\ Len(results) = 2
    /\ Len(Posts) = 2
    /\ ~Posts[1].ok /\ Posts[2].ok
    /\ success = 1 /\ errors = 1

\* The requests for a page of items: GET /libraries/{id}/items?limit=100&page=p.
IsPageRequest(r) == r.method = "GET" /\ Len(r.path) = 4
PageRequests(lib_id) ==
    SelectSeq(requests, LAMBDA r : IsPageRequest(r) /\ r.path[2] = lib_id)
\* The total a library reports, and the pages a total takes: pages are asked
\* for until the pages so far hold total items; an empty library takes one.
TotalOf(l) == Len(srvLibraries[l].items)
PagesFor(total) == IF total = 0 THEN 1 ELSE (total + 99) \div 100
\* The index build has ended successfully.
BuildDone == Sync /\ book_idx >= 1

\* C11: for each library the pages asked for are 0, 1, 2, ... in order;
\* page p + 1 is asked for only after page p came back with items and
\* (p + 1) * 100 < total; so a library takes at most (and, once left
\* behind, exactly) the pages of its total, a library reporting total = 0
\* takes exactly one request, the libraries come one after the other, and
\* libraries that are all empty leave the index empty.
C11_PagesUntilTotal ==
    Sync =>
        /\ \A l \in 1..Len(srvLibraries) :
              LET reqs == PageRequests(srvLibraries[l].id)
                  total == TotalOf(l)
              IN /\ \A k \in 1..Len(reqs) : reqs[k].path[4] = k - 1
                 /\ \A k \in 2..Len(reqs) :
                       /\ reqs[k - 1].ok
                       /\ (k - 2) * 100 < total
                       /\ (k - 1) * 100 < total
                 /\ Len(reqs) <= PagesFor(total)
                 /\ (BuildDone \/ (pc = "index_page" /\ lib_idx > l)) =>
                       Len(reqs) = PagesFor(total)
                 /\ (BuildDone /\ total = 0) => Len(reqs) = 1
        /\ \A i, j \in 1..Len(requests) :
              (i < j /\ IsPageRequest(requests[i]) /\ IsPageRequest(requests[j])) =>
                  requests[i].path[2] <= requests[j].path[2]
        /\ (\A l \in 1..Len(srvLibraries) : TotalOf(l) = 0) => asin_index = <<>>

C11_Witness ==
    /\ BuildDone
    /\ \E l1, l2 \in 1..Len(srvLibraries) :
          /\ TotalOf(l1) = 0
          /\ Len(PageRequests(srvLibraries[l1].id)) = 1
          /\ TotalOf(l2) > 200
          /\ Len(PageRequests(srvLibraries[l2].id)) = 3

\* C12: a request of the index build (progress listing, library listing, any
\* page of any library) answered with a failure status ends the sync in an
\* error with no write sent and no table; so whenever a write has been sent,
\* the whole build came before it and succeeded.
C12_IndexFailureIsFatal ==
    Sync =>
        /\ (\E k \in 1..Len(requests) : requests[k].method = "GET" /\ ~requests[k].ok) =>
              /\ pc = "error"
              /\ Writes = {}
              /\ table = <<>>
              /\ ~Printed("table")
        /\ Writes # {} =>
              /\ requests[1].path = <<"me">> /\ requests[1].ok
              /\ requests[2].path = <<"libraries">> /\ requests[2].ok
              /\ \A l \in 1..Len(srvLibraries) :
                    Len(PageRequests(srvLibraries[l].id)) = PagesFor(TotalOf(l))
              /\ \A j \in Writes : \A k \in 1..Len(requests) :
                    requests[k].method = "GET" => k < j

C12_Witness ==
    /\ Sync /\ argv.apply /\ pc = "error"
    /\ Len(requests) >= 1
    /\ IsPageRequest(requests[Len(requests)])
    /\ ~requests[Len(requests)].ok
    /\ requests[Len(requests)].path[2] = 2
    /\ requests[Len(requests)].path[4] >= 1
    /\ "A1" \in DOMAIN asin_index
    /\ Writes = {}
    /\ table = <<>>

\* The catalog ids the server's items carry.
CatalogAsins ==
    {AllItems(srvLibraries)[k].asin : k \in 1..Len(AllItems(srvLibraries))}

\* C13: an item without catalog id (none, or an empty one) never enters the
\* index: its keys are never None nor "", after the build they are exactly
\* the non-empty catalog ids of the server's items, and a record with an
\* empty catalog id gets the row "Nein" and no write.
C13_NoIdNoIndexEntry ==
    Sync =>
        /\ DOMAIN asin_index \cap {None, ""} = {}
        /\ BuildDone => DOMAIN asin_index = CatalogAsins \ {None, ""}
        /\ \A k \in 1..Len(table) :
              finished_books[k].asin \in {None, ""} =>
                  /\ table[k].abs_match = "Nein"
                  /\ table[k].aktion = "-"
                  /\ ~WriteAt(k)

C13_Witness ==
    /\ Sync /\ pc = "done"
    /\ {None, "", "A1"} \subseteq CatalogAsins
    /\ DOMAIN asin_index = {"A1"}
    /\ Len(table) = 2
    /\ table[2].asin = ""
    /\ table[2].abs_match = "Nein"

\* The last of the server's items that carry this catalog id, in the order
\* of the libraries and of the items in each.
LastWith(asin) ==
    LET its == SelectSeq(AllItems(srvLibraries), LAMBDA item : item.asin = asin)
    IN its[Len(its)]

\* C20: after the build the index maps each catalog id to the item
\* enumerated last among those that carry it, with that item's id and title
\* and (until a write changes the server) the finished flag of that item's
\* own progress, false without one; every write for a record goes to that
\* item.
C20_LastItemWins ==
    BuildDone =>
        /\ \A a \in DOMAIN asin_index :
              /\ asin_index[a].item_id = LastWith(a).id
              /\ asin_index[a].title = LastWith(a).title
              /\ Writes = {} =>
                    (asin_index[a].is_finished <=>
                        mediaProgress[LastWith(a).id] = "finished")
        /\ \A j \in Writes :
              requests[j].path =
                  <<"me", "progress", LastWith(finished_books[requests[j].at].asin).id>>

C20_Witness ==
    LET ids == IdsWith(srvLibraries, "A1")
    IN /\ BuildDone /\ pc = "done"
       /\ Len(ids) >= 3
       /\ ids[1] \div 1000 = ids[2] \div 1000
       /\ ids[2] % 1000 > 100
       /\ ids[Len(ids)] \div 1000 > ids[1] \div 1000
       /\ table[1].aktion = "Synchronisiert"
       /\ \E j \in Writes :
             /\ requests[j].ok
             /\ requests[j].path = <<"me", "progress", ids[Len(ids)]>>
====
